---- MODULE Spec2Model ----
(* Trade offer client of go-steam: the offer lifecycle calls (Send, Accept,  *)
(* Cancel/Decline, GetTradeOffer), the GetTradeOffers filter encoding and    *)
(* the page scrapers (trade token, trade receipt), modelled call by call.    *)
(* One call is one action: the request it issues, the response the server    *)
(* gives it (chosen by the environment) and what it returns and mutates.     *)
EXTENDS Integers, Sequences, FiniteSets, TLC

VARIABLES
    offer,    \* the *TradeOffer the caller holds
    now,      \* the wall clock, time.Now().Unix()
    lastOp,   \* the call that has just returned; "none" between calls
    args,     \* the arguments of that call
    pre,      \* the offer the last call was made on, as it was when the call started
              \* (for a call that takes no offer: the offer the caller holds after it)
    sent,     \* the HTTP requests the last call issued, in order
    resp,     \* what the transport gave the last call
    result    \* what the last call returned

vars == <<offer, now, lastOp, args, pre, sent, resp, result>>

----------------------------------------------------------------------------
(* Bounds of the model *)

MaxTime == 2
MaxID == 2
MaxSegs == 5     \* pieces a trade-token page is put together from
MaxFrags == 3    \* pieces a receipt page is put together from
MaxParts == 3    \* pieces a trade-offer (escrow) page is put together from

----------------------------------------------------------------------------
(* Program constants *)

TradeStateNone == 0
TradeStateInvalid == 1
TradeStateActive == 2
TradeStateAccepted == 3
TradeStateCountered == 4
TradeStateExpired == 5
TradeStateCanceled == 6
TradeStateDeclined == 7
TradeStateInvalidItems == 8
TradeStateCreatedNeedsConfirmation == 9
TradeStateCanceledByTwoFactor == 10
TradeStateInEscrow == 11

TradeConfirmationNone == 0
TradeConfirmationEmail == 1
TradeConfirmationMobileApp == 2
TradeConfirmationMobile == 3

TradeStates == TradeStateNone .. TradeStateInEscrow

TradeFilterNone == 0
TradeFilterSentOffers == 1
TradeFilterRecvOffers == 2
TradeFilterActiveOnly == 8
TradeFilterHistoricalOnly == 16
TradeFilterItemDescriptions == 32

\* The largest value strconv.ParseInt(s, 10, 32) returns.
MaxInt32 == 2147483647

ErrReceiptMatch == <<"unable to match items in trade receipt">>
ErrCannotAcceptActive == <<"unable to accept a non-active trade">>
ErrCannotFindOfferInfo == <<"unable to match data from trade offer url">>

apiGetTradeOffer == <<"APIBaseUrl", "/IEconService/GetTradeOffer/v1/?">>
apiGetTradeOffers == <<"APIBaseUrl", "/IEconService/GetTradeOffers/v1/?">>
apiGetTradeOffersSummary == <<"APIBaseUrl", "/IEconService/GetTradeOffersSummary/v1/?">>
apiDeclineTradeOffer == <<"APIBaseUrl", "/IEconService/DeclineTradeOffer/v1/">>
apiCancelTradeOffer == <<"APIBaseUrl", "/IEconService/CancelTradeOffer/v1/">>

\* The session's credentials (opaque strings supplied by the login code).
apiKey == "KEY"
sessionID == "SID"

----------------------------------------------------------------------------
(* strconv: decimal text is a sequence of digit characters *)

Digits == <<"0", "1", "2", "3", "4", "5", "6", "7", "8", "9">>

RECURSIVE FormatUint(_)
FormatUint(n) ==
    IF n < 10 THEN <<Digits[n + 1]>>
    ELSE FormatUint(n \div 10) \o <<Digits[(n % 10) + 1]>>

FormatInt(n) == IF n < 0 THEN <<"-">> \o FormatUint(-n) ELSE FormatUint(n)

DigitValue(c) == CHOOSE d \in 0..9 : Digits[d + 1] = c

IsDigit(c) == \E d \in 0..9 : Digits[d + 1] = c

RECURSIVE ParseUint(_)
ParseUint(s) ==
    IF Len(s) = 1 THEN DigitValue(s[1])
    ELSE 10 * ParseUint(SubSeq(s, 1, Len(s) - 1)) + DigitValue(s[Len(s)])

----------------------------------------------------------------------------
(* Values *)

NoValue == "none"

\* error values: Nil, or the error's message as its pieces
NilErr == <<>>

Returned(v) == [outcome |-> "ok", err |-> NilErr, value |-> v]
Failed(e) == [outcome |-> "error", err |-> e, value |-> NoValue]
Panicked == [outcome |-> "panic", err |-> <<"nil pointer dereference">>, value |-> NoValue]

\* The error of the transport itself (session.client.Get/Do/PostForm).
TransportErr == <<"transport">>
InvalidResponse == <<"invalid response">>
DecodeErr == <<"json">>

\* new(TradeOffer): Go's zero value
ZeroOffer ==
    [ID |-> 0, State |-> TradeStateNone, ConfirmationMethod |-> TradeConfirmationNone,
     Created |-> 0, Updated |-> 0, Expires |-> 0, RealTime |-> FALSE,
     IsOurOffer |-> FALSE, SendItems |-> <<>>, RecvItems |-> <<>>]


\* pointers: nil, or a reference to a value
NilPtr == [nil |-> TRUE]
Ptr(v) == [nil |-> FALSE, val |-> v]

\* http.Header.Get: the first value of the header, "" when it is missing
HeaderGet(headers, key) ==
    IF \E h \in headers : h[1] = key THEN (CHOOSE h \in headers : h[1] = key)[2] ELSE ""

Request(method, url, query, form) ==
    [method |-> method, url |-> url, query |-> query, form |-> form]

NoParams == [k \in {} |-> ""]


----------------------------------------------------------------------------
(* Session.GetTradeOffer *)

\* json.Decode into APIResponse: Inner and Offer are pointers, left nil when
\* the field is missing (or null).
DecodeAPIResponse(body) ==
    [ok |-> body.valid,
     Inner |-> IF body.hasResponse
               THEN Ptr([Offer |-> IF body.hasOffer THEN Ptr(body.offer) ELSE NilPtr])
               ELSE NilPtr]

GetTradeOffer(id, r) ==
    LET req == Request("GET", apiGetTradeOffer,
                       [key |-> apiKey, tradeofferid |-> FormatUint(id)], NoParams)
        response == DecodeAPIResponse(r.body)
    IN  [sent |-> <<req>>,
         result |->
            IF r.transport = "err" THEN Failed(TransportErr)
            ELSE IF r.transport = "nil" THEN Failed(InvalidResponse)
            ELSE IF ~response.ok THEN Failed(DecodeErr)
            ELSE IF response.Inner.nil THEN Panicked
            ELSE Returned(response.Inner.val.Offer)]

----------------------------------------------------------------------------
(* Session.SendTradeOffer *)

\* json.Decode into SendTradeOffer's Response: ID is `tradeofferid,string`,
\* zero when the field is missing.
DecodeSendResponse(body) ==
    [ok |-> body.valid,
     ErrorMessage |-> body.strError,
     ID |-> IF body.tradeofferid = <<>> THEN 0 ELSE ParseUint(body.tradeofferid),
     MobileConfirmationRequired |-> body.needs_mobile_confirmation,
     EmailConfirmationRequired |-> body.needs_email_confirmation]

\* SentOffer, were the email signal honoured like the mobile one.
SentOffer_EmailHonoured(o, response, t1, t2) ==
    LET stamped == [o EXCEPT !.ID = response.ID,
                             !.Created = t1,
                             !.Updated = t2,
                             !.Expires = t1 + 14 * 24 * 60 * 60,
                             !.RealTime = FALSE,
                             !.IsOurOffer = TRUE]
    IN  IF response.MobileConfirmationRequired
        THEN [stamped EXCEPT !.ConfirmationMethod = TradeConfirmationMobileApp,
                             !.State = TradeStateCreatedNeedsConfirmation]
        ELSE IF response.EmailConfirmationRequired
        THEN [stamped EXCEPT !.ConfirmationMethod = TradeConfirmationEmail,
                             !.State = TradeStateCreatedNeedsConfirmation]
        ELSE [stamped EXCEPT !.State = TradeStateActive]

\* SentOffer, were the expiry counted from the second reading of the clock.
SentOffer_ExpiresFromUpdated(o, response, t1, t2) ==
    LET stamped == [o EXCEPT !.ID = response.ID,
                             !.Created = t1,
                             !.Updated = t2,
                             !.Expires = t2 + 14 * 24 * 60 * 60,
                             !.RealTime = FALSE,
                             !.IsOurOffer = TRUE]
    IN  IF response.MobileConfirmationRequired
        THEN [stamped EXCEPT !.ConfirmationMethod = TradeConfirmationMobileApp,
                             !.State = TradeStateCreatedNeedsConfirmation]
        ELSE [stamped EXCEPT !.State = TradeStateActive]

\* The fields a successful send assigns; t1 and t2 are the two readings of
\* time.Now().
SentOffer(o, response, t1, t2) ==
    LET stamped == [o EXCEPT !.ID = response.ID,
                             !.Created = t1,
                             !.Updated = t2,
                             !.Expires = t1 + 14 * 24 * 60 * 60,
                             !.RealTime = FALSE,
                             !.IsOurOffer = TRUE]
    IN  IF response.MobileConfirmationRequired
        THEN [stamped EXCEPT !.ConfirmationMethod = TradeConfirmationMobileApp,
                             !.State = TradeStateCreatedNeedsConfirmation]
        ELSE [stamped EXCEPT !.State = TradeStateActive]

\* SendOutcome, were the identifier looked at before the error string.
SendOutcome_IDFirst(response) ==
    IF ~response.ok THEN Failed(DecodeErr)
    ELSE IF response.ID = 0 THEN Failed(<<"no OfferID included">>)
    ELSE IF response.ErrorMessage # "" THEN Failed(<<response.ErrorMessage>>)
    ELSE Returned(NoValue)

\* The outcome of decoding the body: an error, or success.
SendOutcome(response) ==
    IF ~response.ok THEN Failed(DecodeErr)
    ELSE IF response.ErrorMessage # "" THEN Failed(<<response.ErrorMessage>>)
    ELSE IF response.ID = 0 THEN Failed(<<"no OfferID included">>)
    ELSE Returned(NoValue)

\* SendTradeOffer, were the offer stamped as soon as the body is decoded,
\* before the error string and the identifier are looked at.
SendTradeOffer_StampsBeforeChecks(o, r, t1, t2) ==
    LET content == [newversion |-> TRUE, version |-> 3,
                    me |-> [assets |-> o.SendItems, currency |-> <<>>, ready |-> FALSE],
                    them |-> [assets |-> o.RecvItems, currency |-> <<>>, ready |-> FALSE]]
        req == Request("POST", <<"https://steamcommunity.com/tradeoffer/new/send">>, NoParams,
                       [sessionid |-> sessionID, serverid |-> "1", partner |-> "sid",
                        tradeoffermessage |-> "", json_tradeoffer |-> content,
                        trade_offer_create_params |->
                            <<"{\"trade_offer_access_token\":\"", "token", "\"}">>])
        response == DecodeSendResponse(r.body)
        res == IF r.transport = "err" THEN Failed(TransportErr)
               ELSE IF r.transport = "nil" THEN Failed(InvalidResponse)
               ELSE SendOutcome(response)
    IN  [sent |-> <<req>>,
         result |-> res,
         offer |-> IF r.transport = "ok" /\ response.ok
                   THEN SentOffer(o, response, t1, t2) ELSE o]

SendTradeOffer(o, r, t1, t2) ==
    LET content == [newversion |-> TRUE, version |-> 3,
                    me |-> [assets |-> o.SendItems, currency |-> <<>>, ready |-> FALSE],
                    them |-> [assets |-> o.RecvItems, currency |-> <<>>, ready |-> FALSE]]
        req == Request("POST", <<"https://steamcommunity.com/tradeoffer/new/send">>, NoParams,
                       [sessionid |-> sessionID, serverid |-> "1", partner |-> "sid",
                        tradeoffermessage |-> "", json_tradeoffer |-> content,
                        trade_offer_create_params |->
                            <<"{\"trade_offer_access_token\":\"", "token", "\"}">>])
        response == DecodeSendResponse(r.body)
        res == IF r.transport = "err" THEN Failed(TransportErr)
               ELSE IF r.transport = "nil" THEN Failed(InvalidResponse)
               ELSE SendOutcome(response)
    IN  [sent |-> <<req>>,
         result |-> res,
         offer |-> IF res.outcome = "ok" THEN SentOffer(o, response, t1, t2) ELSE o]

----------------------------------------------------------------------------
(* Session.DeclineTradeOffer, Session.CancelTradeOffer, Session.AcceptTradeOffer *)

\* EResultOutcome, were a missing header taken for success.
EResultOutcome_MissingIsSuccess(r, what) ==
    LET res == HeaderGet(r.headers, "X-Eresult")
    IN  IF r.transport = "err" THEN Failed(TransportErr)
        ELSE IF r.transport = "nil" THEN Failed(InvalidResponse)
        ELSE IF res # "1" /\ res # "" THEN Failed(<<what, res>>)
        ELSE Returned(NoValue)

\* The shared tail of Decline and Cancel: the x-eresult header decides.
EResultOutcome(r, what) ==
    LET res == HeaderGet(r.headers, "X-Eresult")
    IN  IF r.transport = "err" THEN Failed(TransportErr)
        ELSE IF r.transport = "nil" THEN Failed(InvalidResponse)
        ELSE IF res # "1" THEN Failed(<<what, res>>)
        ELSE Returned(NoValue)

\* DeclineTradeOffer, were its form the one of AcceptTradeOffer.
DeclineTradeOffer_SessionForm(id, r) ==
    [sent |-> <<Request("POST", apiDeclineTradeOffer, NoParams,
                        [sessionid |-> sessionID, serverid |-> "1",
                         tradeofferid |-> FormatUint(id)])>>,
     result |-> EResultOutcome(r, "cannot decline trade: ")]

DeclineTradeOffer(id, r) ==
    [sent |-> <<Request("POST", apiDeclineTradeOffer, NoParams,
                        [key |-> apiKey, tradeofferid |-> FormatUint(id)])>>,
     result |-> EResultOutcome(r, "cannot decline trade: ")]

CancelTradeOffer(id, r) ==
    [sent |-> <<Request("POST", apiCancelTradeOffer, NoParams,
                        [key |-> apiKey, tradeofferid |-> FormatUint(id)])>>,
     result |-> EResultOutcome(r, "cannot cancel trade: ")]

\* json.Decode into AcceptTradeOffer's Response
DecodeAcceptResponse(body) == [ok |-> body.valid, ErrorMessage |-> body.strError]

AcceptOutcome(r) ==
    LET response == DecodeAcceptResponse(r.body)
    IN  IF r.transport = "err" THEN Failed(TransportErr)
        ELSE IF r.transport = "nil" THEN Failed(InvalidResponse)
        ELSE IF r.status # 200 THEN Failed(<<"http error: ", FormatInt(r.status)>>)
        ELSE IF ~response.ok THEN Failed(DecodeErr)
        ELSE IF response.ErrorMessage # "" THEN Failed(<<response.ErrorMessage>>)
        ELSE Returned(NoValue)

AcceptTradeOffer(id, r) ==
    LET tid == FormatUint(id)
        postURL == <<"https://steamcommunity.com/tradeoffer/">> \o tid \o <<"/">>
    IN  [sent |-> <<Request("POST", postURL \o <<"accept">>, NoParams,
                            [sessionid |-> sessionID, serverid |-> "1", tradeofferid |-> tid])>>,
         result |-> AcceptOutcome(r)]

----------------------------------------------------------------------------
(* The facade: TradeOffer.Send, TradeOffer.Accept, TradeOffer.Cancel *)

OfferSend(o, r, t1, t2) == SendTradeOffer(o, r, t1, t2)

OfferAccept(o, r) == AcceptTradeOffer(o.ID, r)

\* OfferCancel with its two branches exchanged.
OfferCancel_Swapped(o, r) ==
    IF o.IsOurOffer THEN DeclineTradeOffer(o.ID, r) ELSE CancelTradeOffer(o.ID, r)

OfferCancel(o, r) ==
    IF o.IsOurOffer THEN CancelTradeOffer(o.ID, r) ELSE DeclineTradeOffer(o.ID, r)


----------------------------------------------------------------------------
(* Session.GetTradeOffers *)

RECURSIVE BitAnd(_, _)
BitAnd(a, b) ==
    IF a = 0 \/ b = 0 THEN 0
    ELSE (a % 2) * (b % 2) + 2 * BitAnd(a \div 2, b \div 2)

testBit(bits, bit) == BitAnd(bits, bit) = bit

\* url.Values.Set
Set(params, k, v) ==
    [x \in DOMAIN params \cup {k} |-> IF x = k THEN v ELSE params[x]]

\* json.Decode into GetTradeOffersSummary's response: Inner is a pointer,
\* left nil when the field is missing.
DecodeSummaryResponse(body) ==
    [ok |-> body.valid,
     Inner |-> IF body.hasResponse THEN Ptr(body.summary) ELSE NilPtr]

GetTradeOffersSummary(lastVisitTime, r) ==
    LET key == [key |-> apiKey]
        params == IF lastVisitTime # 0
                  THEN Set(key, "time_last_visit", FormatUint(lastVisitTime))
                  ELSE key
        response == DecodeSummaryResponse(r.body)
    IN  [sent |-> <<Request("GET", apiGetTradeOffersSummary, params, NoParams)>>,
         result |->
            IF r.transport = "err" THEN Failed(TransportErr)
            ELSE IF r.transport = "nil" THEN Failed(InvalidResponse)
            ELSE IF ~response.ok THEN Failed(DecodeErr)
            ELSE Returned(response.Inner)]

\* The query GetTradeOffers builds, were the cutoff sent with the
\* historical-only flag instead of the active-only flag.
TradeOffersParams_CutoffWithHistorical(filter, timeCutOff) ==
    LET p0 == [key |-> apiKey]
        p1 == IF testBit(filter, TradeFilterSentOffers)
              THEN Set(p0, "get_sent_offers", "1") ELSE p0
        p2 == IF testBit(filter, TradeFilterRecvOffers)
              THEN Set(p1, "get_received_offers", "1") ELSE p1
        p3 == IF testBit(filter, TradeFilterActiveOnly)
              THEN Set(p2, "active_only", "1") ELSE p2
        p4 == IF testBit(filter, TradeFilterItemDescriptions)
              THEN Set(p3, "get_descriptions", "1") ELSE p3
    IN  IF testBit(filter, TradeFilterHistoricalOnly)
        THEN Set(Set(p4, "historical_only", "1"),
                 "time_historical_cutoff", FormatInt(timeCutOff))
        ELSE p4

\* The query GetTradeOffers builds; timeCutOff is timeCutOff.Unix().
TradeOffersParams(filter, timeCutOff) ==
    LET p0 == [key |-> apiKey]
        p1 == IF testBit(filter, TradeFilterSentOffers)
              THEN Set(p0, "get_sent_offers", "1") ELSE p0
        p2 == IF testBit(filter, TradeFilterRecvOffers)
              THEN Set(p1, "get_received_offers", "1") ELSE p1
        p3 == IF testBit(filter, TradeFilterActiveOnly)
              THEN Set(Set(p2, "active_only", "1"),
                       "time_historical_cutoff", FormatInt(timeCutOff))
              ELSE p2
        p4 == IF testBit(filter, TradeFilterItemDescriptions)
              THEN Set(p3, "get_descriptions", "1") ELSE p3
    IN  IF testBit(filter, TradeFilterHistoricalOnly)
        THEN Set(p4, "historical_only", "1") ELSE p4

GetTradeOffers(filter, timeCutOff, r) ==
    LET response == DecodeAPIResponse(r.body)
    IN  [sent |-> <<Request("GET", apiGetTradeOffers,
                            TradeOffersParams(filter, timeCutOff), NoParams)>>,
         result |->
            IF r.transport = "err" THEN Failed(TransportErr)
            ELSE IF r.transport = "nil" THEN Failed(InvalidResponse)
            ELSE IF ~response.ok THEN Failed(DecodeErr)
            ELSE Returned(response.Inner)]

----------------------------------------------------------------------------
(* Session.GetMyTradeToken; pages are sequences of characters *)

\* The characters of [a-zA-Z0-9-_] that pages here are written with.
IsTokenChar(c) == c \in {"t", "o", "k", "e", "n", "a", "b", "-"}

TokenLiteral == <<"t", "o", "k", "e", "n", "=">>

\* offerInfoExp matches at i: "token=" and at least one token character.
OfferInfoMatchesAt(body, i) ==
    /\ i + Len(TokenLiteral) <= Len(body)
    /\ SubSeq(body, i, i + Len(TokenLiteral) - 1) = TokenLiteral
    /\ IsTokenChar(body[i + Len(TokenLiteral)])

\* The end of the longest run of token characters starting at j (the greedy +).
RECURSIVE RunEnd(_, _)
RunEnd(body, j) ==
    IF j < Len(body) /\ IsTokenChar(body[j + 1]) THEN RunEnd(body, j + 1) ELSE j

\* The match of offerInfoExp at i: the matched text and its group.
OfferInfoMatch(body, i) ==
    LET from == i + Len(TokenLiteral)
        to == RunEnd(body, from)
    IN  <<SubSeq(body, i, to), SubSeq(body, from, to)>>

\* FindStringSubmatch, were it to report the rightmost match.
OfferInfoFind_Rightmost(body) ==
    IF \E i \in 1..Len(body) : OfferInfoMatchesAt(body, i)
    THEN LET i == CHOOSE x \in 1..Len(body) :
                    /\ OfferInfoMatchesAt(body, x)
                    /\ \A y \in (x + 1)..Len(body) : ~OfferInfoMatchesAt(body, y)
         IN  OfferInfoMatch(body, i)
    ELSE <<>>

\* offerInfoExp.FindStringSubmatch: the leftmost match, nil (<<>>) if none.
OfferInfoFind(body) ==
    IF \E i \in 1..Len(body) : OfferInfoMatchesAt(body, i)
    THEN LET i == CHOOSE x \in 1..Len(body) :
                    /\ OfferInfoMatchesAt(body, x)
                    /\ \A y \in 1..(x - 1) : ~OfferInfoMatchesAt(body, y)
         IN  OfferInfoMatch(body, i)
    ELSE <<>>

\* The start of a page scrape: transport, status and reading the body.
FetchFailure(r) ==
    IF r.transport = "err" THEN Failed(TransportErr)
    ELSE IF r.transport = "nil" THEN Failed(InvalidResponse)
    ELSE IF r.status # 200 THEN Failed(<<"http error: ", FormatInt(r.status)>>)
    ELSE IF r.readErr THEN Failed(<<"read">>)
    ELSE Returned(NoValue)

GetMyTradeToken(r) ==
    LET m == OfferInfoFind(r.body)
    IN  [sent |-> <<Request("GET", <<"https://steamcommunity.com/my/tradeoffers/privacy">>,
                            NoParams, NoParams)>>,
         result |->
            IF FetchFailure(r).outcome # "ok" THEN FetchFailure(r)
            ELSE IF Len(m) = 0 \/ Len(m) # 2 THEN Failed(ErrCannotFindOfferInfo)
            ELSE Returned(m[2])]

----------------------------------------------------------------------------
(* Session.GetTradeReceivedItems; receipt pages are sequences of tokens:    *)
(* "O" is the text `oItem =`, "NL" a line break, "q" a double quote.        *)

IsSpace(c) == c \in {" ", "NL"}

\* Where a match of `.+?});` that starts its group at g may end: the group
\* is body[g..j], at least one character that is no line break and then "}",
\* with ";" after it.
ReceiptGroupEnds(body, g) ==
    {j \in (g + 1)..(Len(body) - 1) :
        /\ body[j] = "}"
        /\ body[j + 1] = ";"
        /\ \A k \in g..(j - 1) : body[k] # "NL"}

ReceiptMatchesAt(body, i) ==
    /\ i + 1 <= Len(body)
    /\ body[i] = "O"
    /\ IsSpace(body[i + 1])
    /\ ReceiptGroupEnds(body, i + 2) # {}

Min(S) == CHOOSE x \in S : \A y \in S : x <= y
Max(S) == CHOOSE x \in S : \A y \in S : x >= y

\* FindAllSubmatch, were the group greedy (.+ for .+?).
RECURSIVE ReceiptFindAll_Greedy(_, _)
ReceiptFindAll_Greedy(body, i) ==
    IF i > Len(body) THEN <<>>
    ELSE IF ReceiptMatchesAt(body, i)
    THEN LET j == Max(ReceiptGroupEnds(body, i + 2))
         IN  <<SubSeq(body, i + 2, j)>> \o ReceiptFindAll_Greedy(body, j + 2)
    ELSE ReceiptFindAll_Greedy(body, i + 1)

\* receiptExp.FindAllSubmatch(body, -1) from position i on: the groups of
\* the successive leftmost matches, each ending as early as it can.
RECURSIVE ReceiptFindAll(_, _)
ReceiptFindAll(body, i) ==
    IF i > Len(body) THEN <<>>
    ELSE IF ReceiptMatchesAt(body, i)
    THEN LET j == Min(ReceiptGroupEnds(body, i + 2))
         IN  <<SubSeq(body, i + 2, j)>> \o ReceiptFindAll(body, j + 2)
    ELSE ReceiptFindAll(body, i + 1)

\* json.Unmarshal of a group into an InventoryItem: the text must be one
\* object, here a number or one quoted string between braces.
IsObject(text) ==
    /\ Len(text) >= 3
    /\ text[1] = "{"
    /\ text[Len(text)] = "}"
    /\ LET inner == SubSeq(text, 2, Len(text) - 1)
       IN  \/ Len(inner) = 1 /\ IsDigit(inner[1])
           \/ /\ Len(inner) >= 2
              /\ inner[1] = "q"
              /\ inner[Len(inner)] = "q"
              /\ \A k \in 2..(Len(inner) - 1) : inner[k] # "q"

Unmarshal(text) == [id |-> SubSeq(text, 2, Len(text) - 1)]

GetTradeReceivedItems(receiptID, r) ==
    LET m == ReceiptFindAll(r.body, 1)
    IN  [sent |-> <<Request("GET", <<"https://steamcommunity.com/trade/">>
                                   \o FormatUint(receiptID) \o <<"/receipt">>,
                            NoParams, NoParams)>>,
         result |->
            IF FetchFailure(r).outcome # "ok" THEN FetchFailure(r)
            ELSE IF m = <<>> THEN Failed(ErrReceiptMatch)
            ELSE IF \E k \in 1..Len(m) : ~IsObject(m[k]) THEN Failed(DecodeErr)
            ELSE Returned([k \in 1..Len(m) |-> Unmarshal(m[k])])]

----------------------------------------------------------------------------
(* Session.GetEscrow and its two entry points; trade-offer pages are        *)
(* sequences of tokens: "MY" is the text `var g_daysMyEscrow = `, "THEM"    *)
(* the text `var g_daysTheirEscrow = `, "DIV" the text                      *)
(* `<div id="error_msg">`, "/DIV" the text `</div>`, "<b>" any other tag.   *)

\* strconv.ParseInt(s, 10, 32) of a run of digits, its error dropped: the
\* number, or the largest 32-bit value when the number does not fit.
RECURSIVE ParseInt32From(_, _, _)
ParseInt32From(s, i, n) ==
    IF i > Len(s) THEN n
    ELSE LET d == DigitValue(s[i])
         IN  IF n > (MaxInt32 - d) \div 10 THEN MaxInt32
             ELSE ParseInt32From(s, i + 1, 10 * n + d)

ParseInt32(s) == ParseInt32From(s, 1, 0)

\* The end of the longest run of digits starting at j (j itself a digit).
RECURSIVE DigitsEnd(_, _)
DigitsEnd(body, j) ==
    IF j < Len(body) /\ IsDigit(body[j + 1]) THEN DigitsEnd(body, j + 1) ELSE j

\* `<literal>(\d+);` matches at i.
DaysMatchesAt(body, literal, i) ==
    /\ i + 2 <= Len(body)
    /\ body[i] = literal
    /\ IsDigit(body[i + 1])
    /\ DigitsEnd(body, i + 1) < Len(body)
    /\ body[DigitsEnd(body, i + 1) + 1] = ";"

\* FindStringSubmatch of myEscrowExp / themEscrowExp: the group of the
\* leftmost match, as m[1]; <<>> stands for no match (len(m) # 2).
DaysFind(body, literal) ==
    IF \E i \in 1..Len(body) : DaysMatchesAt(body, literal, i)
    THEN LET i == Min({x \in 1..Len(body) : DaysMatchesAt(body, literal, x)})
         IN  SubSeq(body, i + 1, DigitsEnd(body, i + 1))
    ELSE <<>>

IsTag(c) == c \in {"DIV", "/DIV", "<b>"}

\* The end of the longest run of [^<] starting at j (j itself no tag).
RECURSIVE TextEnd(_, _)
TextEnd(body, j) ==
    IF j < Len(body) /\ ~IsTag(body[j + 1]) THEN TextEnd(body, j + 1) ELSE j

\* errorMsgExp matches at i: the opening tag, text without "<", the
\* closing tag.
ErrorMsgMatchesAt(body, i) ==
    /\ i + 2 <= Len(body)
    /\ body[i] = "DIV"
    /\ ~IsTag(body[i + 1])
    /\ TextEnd(body, i + 1) < Len(body)
    /\ body[TextEnd(body, i + 1) + 1] = "/DIV"

\* Where the group ([^<]+) starts in text from..to: after the leading
\* whitespace the first \s* takes, which leaves the group one character.
RECURSIVE GroupStart(_, _, _)
GroupStart(body, from, to) ==
    IF from < to /\ body[from] = " " THEN GroupStart(body, from + 1, to) ELSE from

\* FindStringSubmatch of errorMsgExp: the group of the leftmost match.
ErrorMsgFind(body) ==
    IF \E i \in 1..Len(body) : ErrorMsgMatchesAt(body, i)
    THEN LET i == Min({x \in 1..Len(body) : ErrorMsgMatchesAt(body, x)})
             to == TextEnd(body, i + 1)
         IN  SubSeq(body, GroupStart(body, i + 1, to), to)
    ELSE <<>>

\* The three searches of GetEscrow over the page body.
EscrowInfo(body) ==
    LET m == DaysFind(body, "MY")
        t == DaysFind(body, "THEM")
    IN  [MyDays |-> IF m # <<>> THEN ParseInt32(m) ELSE 0,
         ThemDays |-> IF t # <<>> THEN ParseInt32(t) ELSE 0,
         ErrorMsg |-> ErrorMsgFind(body)]

GetEscrow(url, r) ==
    [sent |-> <<Request("GET", url, NoParams, NoParams)>>,
     result |-> IF FetchFailure(r).outcome # "ok" THEN FetchFailure(r)
                ELSE Returned(EscrowInfo(r.body))]

GetEscrowGuardInfo(sid, token, r) ==
    GetEscrow(<<"https://steamcommunity.com/tradeoffer/new/?", "partner=", sid,
                "&token=", token>>, r)

GetEscrowGuardInfoForTrade(offerID, r) ==
    GetEscrow(<<"https://steamcommunity.com/tradeoffer/">> \o FormatUint(offerID), r)

----------------------------------------------------------------------------
(* The environment: what the server and the transport may answer *)

NoResponse == [transport |-> "none"]

NoArgs == [k \in {} |-> 0]

\* The answers to one call: every response with a body of `bodies` and
\* headers of `headerSets`, a transport error, and a nil response.
Responses(bodies, headerSets, garbage) ==
    [transport : {"ok"}, status : {200, 500}, headers : headerSets, body : bodies]
    \cup [transport : {"err", "nil"}, status : {0}, headers : {{}}, body : {garbage}]

EResultHeaders ==
    {{}, {<<"X-Eresult", "1">>}, {<<"X-Eresult", "2">>}, {<<"X-Eresult", "01">>}}

ErrorBodies == [valid : BOOLEAN, strError : {"", "boom"}]
GarbageErrorBody == [valid |-> FALSE, strError |-> ""]

\* Answers to accept, decline and cancel.
MutationResponses ==
    Responses({b \in ErrorBodies : ~b.valid => b = GarbageErrorBody},
              EResultHeaders, GarbageErrorBody)

GarbageSendBody ==
    [valid |-> FALSE, strError |-> "", tradeofferid |-> <<>>,
     needs_mobile_confirmation |-> FALSE, needs_email_confirmation |-> FALSE]

SendBodies ==
    [valid : {TRUE}, strError : {"", "boom"},
     tradeofferid : {<<>>} \cup {FormatUint(i) : i \in 0..MaxID},
     needs_mobile_confirmation : BOOLEAN, needs_email_confirmation : BOOLEAN]
    \cup {GarbageSendBody}

SendResponses ==
    {r \in Responses(SendBodies, {{}}, GarbageSendBody) : r.status = 200 \/ r.transport # "ok"}

\* Offers as the server may describe them (json-decoded TradeOffer values).
\* An offer awaiting confirmation names its confirmation method.
DecodedOffers ==
    {o \in [ID : 1..MaxID, State : TradeStates,
             ConfirmationMethod : {TradeConfirmationNone, TradeConfirmationMobileApp},
             Created : {0}, Updated : {0}, Expires : {14 * 24 * 60 * 60},
             RealTime : BOOLEAN, IsOurOffer : BOOLEAN,
             SendItems : {<<>>}, RecvItems : {<<"b1">>}] :
        (o.ConfirmationMethod = TradeConfirmationMobileApp)
            <=> (o.State = TradeStateCreatedNeedsConfirmation)}

GarbageOfferBody ==
    [valid |-> FALSE, hasResponse |-> FALSE, hasOffer |-> FALSE, offer |-> ZeroOffer]

\* Bodies answering a request for offer id: the offer, an envelope without
\* one ({"response":{}}), an envelope without a response ({}), or no JSON.
OfferBodies(id) ==
    [valid : {TRUE}, hasResponse : {TRUE}, hasOffer : {TRUE},
     offer : {o \in DecodedOffers : o.ID = id}]
    \cup [valid : {TRUE}, hasResponse : BOOLEAN, hasOffer : {FALSE}, offer : {ZeroOffer}]
    \cup {GarbageOfferBody}

OfferResponses(id) ==
    {r \in Responses(OfferBodies(id), {{}}, GarbageOfferBody) :
        r.status = 200 \/ r.transport # "ok"}

ZeroSummary ==
    [PendingReceivedCount |-> 0, NewReceivedCount |-> 0, UpdatedReceivedCount |-> 0,
     HistoricalReceivedCount |-> 0, PendingSentCount |-> 0, NewlyAcceptedSentCount |-> 0,
     UpdatedSentCount |-> 0, HistoricalSentCount |-> 0, EscrowReceivedCount |-> 0,
     EscrowSendCount |-> 0]

GarbageSummaryBody == [valid |-> FALSE, hasResponse |-> FALSE, summary |-> ZeroSummary]

\* Bodies answering a request for the summary: counts, an empty object, no JSON.
SummaryBodies ==
    [valid : {TRUE}, hasResponse : {TRUE},
     summary : {ZeroSummary, [ZeroSummary EXCEPT !.PendingReceivedCount = 1,
                                                 !.EscrowSendCount = 1]}]
    \cup {[valid |-> TRUE, hasResponse |-> FALSE, summary |-> ZeroSummary],
          GarbageSummaryBody}

SummaryResponses ==
    {r \in Responses(SummaryBodies, {{}}, GarbageSummaryBody) :
        r.status = 200 \/ r.transport # "ok"}

\* Values of lastVisitTime: not given, and a time.
VisitTimes == {0, 15}

\* Answers to GetTradeOffers: a list envelope, an empty object, no JSON.
ListBodies ==
    [valid : {TRUE}, hasResponse : BOOLEAN, hasOffer : {FALSE}, offer : {ZeroOffer}]
    \cup {GarbageOfferBody}

ListResponses ==
    {r \in Responses(ListBodies, {{}}, GarbageOfferBody) :
        r.status = 200 \/ r.transport # "ok"}

Filters == 0..(2 * TradeFilterItemDescriptions - 1)

\* Cutoff times as Unix seconds, one of them before 1970.
Cutoffs == {-1, 0, 15, 14 * 24 * 60 * 60}

\* All sequences of at most n elements of S.
RECURSIVE SeqsUpTo(_, _)
SeqsUpTo(S, n) ==
    IF n = 0 THEN {<<>>}
    ELSE LET shorter == SeqsUpTo(S, n - 1)
         IN  shorter \cup {Append(q, x) : q \in shorter, x \in S}

RECURSIVE Flatten(_)
Flatten(parts) == IF parts = <<>> THEN <<>> ELSE Head(parts) \o Flatten(Tail(parts))

\* Trade-token pages: "token=", token characters and a separator, in any order.
TokenPages ==
    {Flatten(parts) : parts \in SeqsUpTo({TokenLiteral, <<"a">>, <<"b">>, <<"&">>}, MaxSegs)}

\* A page answer, and the ways of not getting a page.
PageResponses(bodies) ==
    [transport : {"ok"}, status : {200}, readErr : {FALSE}, body : bodies]
    \cup [transport : {"ok"}, status : {200, 500}, readErr : BOOLEAN, body : {<<>>}]
    \cup [transport : {"err", "nil"}, status : {0}, readErr : {FALSE}, body : {<<>>}]

\* The pieces of a receipt page: an item fragment `oItem = {..};` (its
\* whitespace a blank or a line break), other text, and fragments that are
\* off the form: no closing brace, no whitespace, a "};" inside a string, an
\* object running over two lines.
ReceiptPieces ==
    [kind : {"item"}, sep : {" ", "NL"}, item : {"1", "2"}]
    \cup [kind : {"text", "unterminated", "nospace", "quoted", "multiline"},
          sep : {" "}, item : {"1"}]

PieceText(piece) ==
    CASE piece.kind = "item" -> <<"O", piece.sep, "{", piece.item, "}", ";">>
      [] piece.kind = "text" -> <<"x">>
      [] piece.kind = "unterminated" -> <<"O", " ", "{", piece.item, ";">>
      [] piece.kind = "nospace" -> <<"O", "{", piece.item, "}", ";">>
      [] piece.kind = "quoted" -> <<"O", " ", "{", "q", "}", ";", "q", "}", ";">>
      [] piece.kind = "multiline" -> <<"O", " ", "{", "NL", piece.item, "}", ";">>

ReceiptText(pieces) == Flatten([k \in 1..Len(pieces) |-> PieceText(pieces[k])])

\* Day counts as a page may write them: the digits, the number they
\* denote in canonical decimal, and whether it fits 32 bits.
DayWritings ==
    {[text |-> <<"0", "7">>, canon |-> <<"7">>, fits |-> TRUE],
     [text |-> <<"2", "1", "4", "7", "4", "8", "3", "6", "4", "7">>,
      canon |-> <<"2", "1", "4", "7", "4", "8", "3", "6", "4", "7">>, fits |-> TRUE],
     [text |-> <<"2", "1", "4", "7", "4", "8", "3", "6", "4", "8">>,
      canon |-> <<"2", "1", "4", "7", "4", "8", "3", "6", "4", "8">>, fits |-> FALSE]}

NoDays == [text |-> <<>>, canon |-> <<>>, fits |-> TRUE]

\* Error messages as a page may write them, and the message shown.
ErrorWritings ==
    {[text |-> <<"e">>, shown |-> <<"e">>],
     [text |-> <<" ", "e", "r", " ">>, shown |-> <<"e", "r", " ">>]}

NoError == [text |-> <<>>, shown |-> <<>>]

\* The pieces of a trade-offer page: our days, their days, an error box,
\* other text, a day count without its semicolon, an error box holding
\* another tag.
EscrowPieces ==
    [kind : {"my", "them"}, days : DayWritings, msg : {NoError}]
    \cup [kind : {"error"}, days : {NoDays}, msg : ErrorWritings]
    \cup [kind : {"text", "mybroken", "errbroken"}, days : {NoDays}, msg : {NoError}]

EscrowPieceText(piece) ==
    CASE piece.kind = "my" -> <<"MY">> \o piece.days.text \o <<";">>
      [] piece.kind = "them" -> <<"THEM">> \o piece.days.text \o <<";">>
      [] piece.kind = "error" -> <<"DIV">> \o piece.msg.text \o <<"/DIV">>
      [] piece.kind = "text" -> <<"x">>
      [] piece.kind = "mybroken" -> <<"MY", "5">>
      [] piece.kind = "errbroken" -> <<"DIV", "e", "<b>", "/DIV">>

EscrowText(pieces) ==
    Flatten([k \in 1..Len(pieces) |-> EscrowPieceText(pieces[k])])

----------------------------------------------------------------------------
(* The caller: one action per call *)

Init ==
    /\ offer = ZeroOffer
    /\ now = 0
    /\ lastOp = "none"
    /\ args = NoArgs
    /\ pre = ZeroOffer
    /\ sent = <<>>
    /\ resp = NoResponse
    /\ result = Returned(NoValue)

\* The clock advances between calls.
Tick ==
    /\ lastOp = "none"
    /\ now < MaxTime
    /\ now' = now + 1
    /\ UNCHANGED <<offer, lastOp, args, pre, sent, resp, result>>

\* The caller builds a fresh offer to send.
NewOffer ==
    /\ lastOp = "none"
    /\ \E items \in {<<>>, <<"a1">>} :
           /\ offer' = [ZeroOffer EXCEPT !.SendItems = items]
           /\ lastOp' = "New"
           /\ args' = NoArgs
           /\ pre' = offer'
           /\ sent' = <<>>
           /\ resp' = NoResponse
           /\ result' = Returned(NoValue)
           /\ UNCHANGED now

\* offer, err := session.GetTradeOffer(id); the caller keeps a non-nil offer.
CallGetTradeOffer ==
    /\ lastOp = "none"
    /\ \E id \in 1..MaxID : \E r \in OfferResponses(id) :
           LET call == GetTradeOffer(id, r)
           IN  /\ lastOp' = "GetTradeOffer"
               /\ args' = [id |-> id]
               /\ sent' = call.sent
               /\ resp' = r
               /\ result' = call.result
               /\ offer' = IF call.result.outcome = "ok" /\ ~call.result.value.nil
                           THEN call.result.value.val ELSE offer
               /\ pre' = offer'
               /\ UNCHANGED now

\* summary, err := session.GetTradeOffersSummary(lastVisitTime)
CallGetTradeOffersSummary ==
    /\ lastOp = "none"
    /\ \E lastVisitTime \in VisitTimes, r \in SummaryResponses :
           LET call == GetTradeOffersSummary(lastVisitTime, r)
           IN  /\ lastOp' = "GetTradeOffersSummary"
               /\ args' = [lastVisitTime |-> lastVisitTime]
               /\ pre' = offer
               /\ sent' = call.sent
               /\ resp' = r
               /\ result' = call.result
               /\ UNCHANGED <<offer, now>>

\* offer.Send(session, sid, token); the clock may advance between the two
\* readings of time.Now().
CallSend ==
    /\ lastOp = "none"
    /\ \E r \in SendResponses, t2 \in {now, now + 1} :
           LET call == OfferSend(offer, r, now, t2)
           IN  /\ t2 <= MaxTime
               /\ lastOp' = "Send"
               /\ args' = NoArgs
               /\ pre' = offer
               /\ sent' = call.sent
               /\ resp' = r
               /\ result' = call.result
               /\ offer' = call.offer
               /\ now' = IF call.result.outcome = "ok" THEN t2 ELSE now

\* offer.Accept(session)
CallAccept ==
    /\ lastOp = "none"
    /\ \E r \in MutationResponses :
           LET call == OfferAccept(offer, r)
           IN  /\ lastOp' = "Accept"
               /\ args' = NoArgs
               /\ pre' = offer
               /\ sent' = call.sent
               /\ resp' = r
               /\ result' = call.result
               /\ UNCHANGED <<offer, now>>

\* offer.Cancel(session)
CallCancel ==
    /\ lastOp = "none"
    /\ \E r \in MutationResponses :
           LET call == OfferCancel(offer, r)
           IN  /\ lastOp' = "Cancel"
               /\ args' = NoArgs
               /\ pre' = offer
               /\ sent' = call.sent
               /\ resp' = r
               /\ result' = call.result
               /\ UNCHANGED <<offer, now>>

\* The caller has looked at what the call returned and moves on.
Continue ==
    /\ lastOp # "none"
    /\ lastOp' = "none"
    /\ args' = NoArgs
    /\ pre' = offer
    /\ sent' = <<>>
    /\ resp' = NoResponse
    /\ result' = Returned(NoValue)
    /\ UNCHANGED <<offer, now>>

Next ==
    \/ Tick \/ NewOffer \/ CallGetTradeOffer \/ CallGetTradeOffersSummary
    \/ CallSend \/ CallAccept \/ CallCancel \/ Continue

Spec == Init /\ [][Next]_vars

\* session.GetTradeOffers(filter, timeCutOff)
CallGetTradeOffers ==
    /\ lastOp = "none"
    /\ \E filter \in Filters, timeCutOff \in Cutoffs, r \in ListResponses :
           LET call == GetTradeOffers(filter, timeCutOff, r)
           IN  /\ lastOp' = "GetTradeOffers"
               /\ args' = [filter |-> filter, timeCutOff |-> timeCutOff]
               /\ sent' = call.sent
               /\ resp' = r
               /\ result' = call.result
               /\ UNCHANGED <<offer, now, pre>>

NextFilter == CallGetTradeOffers \/ Continue

SpecFilter == Init /\ [][NextFilter]_vars

\* session.GetMyTradeToken()
CallGetMyTradeToken ==
    /\ lastOp = "none"
    /\ \E r \in PageResponses(TokenPages) :
           LET call == GetMyTradeToken(r)
           IN  /\ lastOp' = "GetMyTradeToken"
               /\ args' = NoArgs
               /\ sent' = call.sent
               /\ resp' = r
               /\ result' = call.result
               /\ UNCHANGED <<offer, now, pre>>

NextToken == CallGetMyTradeToken \/ Continue

SpecToken == Init /\ [][NextToken]_vars

\* session.GetTradeReceivedItems(receiptID); the answer records the pieces
\* the page was put together from.
CallGetTradeReceivedItems ==
    /\ lastOp = "none"
    /\ \E receiptID \in 1..MaxID, pieces \in SeqsUpTo(ReceiptPieces, MaxFrags) :
         \E r \in PageResponses({ReceiptText(pieces)}) :
           LET call == GetTradeReceivedItems(receiptID, r)
           IN  /\ (r.body # ReceiptText(pieces)) => pieces = <<>>
               /\ lastOp' = "GetTradeReceivedItems"
               /\ args' = [receiptID |-> receiptID]
               /\ sent' = call.sent
               /\ resp' = [transport |-> r.transport, status |-> r.status,
                            readErr |-> r.readErr, body |-> r.body, pieces |-> pieces]
               /\ result' = call.result
               /\ UNCHANGED <<offer, now, pre>>

NextReceipt == CallGetTradeReceivedItems \/ Continue

SpecReceipt == Init /\ [][NextReceipt]_vars

\* session.GetEscrowGuardInfo(sid, token) or
\* session.GetEscrowGuardInfoForTrade(offerID); the answer records the
\* pieces the page was put together from.
CallGetEscrow ==
    /\ lastOp = "none"
    /\ \E forTrade \in BOOLEAN, pieces \in SeqsUpTo(EscrowPieces, MaxParts) :
         \E r \in PageResponses({EscrowText(pieces)}) :
           LET call == IF forTrade THEN GetEscrowGuardInfoForTrade(MaxID, r)
                       ELSE GetEscrowGuardInfo("sid", "token", r)
           IN  /\ (r.body # EscrowText(pieces)) => pieces = <<>>
               /\ lastOp' = "GetEscrow"
               /\ args' = IF forTrade THEN [offerID |-> MaxID]
                          ELSE [sid |-> "sid", token |-> "token"]
               /\ sent' = call.sent
               /\ resp' = [transport |-> r.transport, status |-> r.status,
                            readErr |-> r.readErr, body |-> r.body, pieces |-> pieces]
               /\ result' = call.result
               /\ UNCHANGED <<offer, now, pre>>

NextEscrow == CallGetEscrow \/ Continue

SpecEscrow == Init /\ [][NextEscrow]_vars


----------------------------------------------------------------------------
(* Claims on the offer lifecycle (specification Spec) *)

TerminalStates ==
    {TradeStateAccepted, TradeStateCanceled, TradeStateDeclined,
     TradeStateExpired, TradeStateInvalid}

\* The response was received and its body decoded.
Decoded == resp.transport = "ok" /\ resp.body.valid

\* The identifier a send response carries: zero when it carries none.
ServerID == IF resp.body.tradeofferid = <<>> THEN 0 ELSE ParseUint(resp.body.tradeofferid)

\* C1: offer.Accept() issues its request only when the offer is Active, and
\* offer.Cancel() issues a cancel or decline request only when the offer is
\* in none of the terminal states Accepted, Canceled, Declined, Expired,
\* Invalid.
C1_OnlyLiveOffersAreActedOn ==
    /\ (lastOp = "Accept" /\ sent # <<>>) => pre.State = TradeStateActive
    /\ (lastOp = "Cancel" /\ sent # <<>>) => pre.State \notin TerminalStates

\* C2: after a successful send the offer is CreatedNeedsConfirmation with
\* method MobileApp exactly when the response asked for mobile confirmation,
\* and Active in every other case, whatever the email signal and whatever
\* the offer held before.
C2_SendStateFollowsMobileSignal ==
    (lastOp = "Send" /\ result.outcome = "ok") =>
        /\ (offer.State = TradeStateCreatedNeedsConfirmation
            /\ offer.ConfirmationMethod = TradeConfirmationMobileApp)
           <=> resp.body.needs_mobile_confirmation
        /\ ~resp.body.needs_mobile_confirmation => offer.State = TradeStateActive

\* A send succeeded on an offer that named mobile confirmation before, with
\* the email signal set and the mobile signal clear.
C2_Witness ==
    /\ lastOp = "Send" /\ result.outcome = "ok"
    /\ pre.ConfirmationMethod = TradeConfirmationMobileApp
    /\ resp.body.needs_email_confirmation /\ ~resp.body.needs_mobile_confirmation
    /\ offer.State = TradeStateActive

\* C3: after a successful send the offer expires 14 days after its creation
\* time, is ours, and carries the nonzero identifier the server issued,
\* whatever the offer held before.
C3_SendStampsOffer ==
    (lastOp = "Send" /\ result.outcome = "ok") =>
        /\ offer.Expires = offer.Created + 14 * 24 * 3600
        /\ offer.IsOurOffer
        /\ offer.ID = ServerID
        /\ offer.ID # 0

\* A send succeeded on an inbound offer decoded from the server, under
\* another identifier, while the clock moved between the two readings.
C3_Witness ==
    /\ lastOp = "Send" /\ result.outcome = "ok"
    /\ ~pre.IsOurOffer /\ pre.ID # 0 /\ pre.ID # offer.ID
    /\ pre.RecvItems # <<>>
    /\ offer.Updated # offer.Created

\* C4: a decoded send response with a non-empty error string fails with that
\* message, even when it carries an identifier; with an empty error string
\* and no (zero) identifier it fails with "no OfferID included"; the send
\* succeeds only with an empty error string and a nonzero identifier.
C4_SendErrors ==
    (lastOp = "Send" /\ Decoded) =>
        /\ resp.body.strError # "" => result = Failed(<<resp.body.strError>>)
        /\ (resp.body.strError = "" /\ ServerID = 0)
            => result = Failed(<<"no OfferID included">>)
        /\ result.outcome = "ok" <=> (resp.body.strError = "" /\ ServerID # 0)

\* A send was rejected with the server's message although the response
\* carried an identifier.
C4_Witness ==
    /\ lastOp = "Send" /\ Decoded
    /\ resp.body.strError = "boom" /\ ServerID # 0
    /\ result.err = <<"boom">>

\* C5: offer.Cancel() sends exactly one request, to the cancel endpoint when
\* the offer is ours and to the decline endpoint when it is not.
C5_CancelRoutesByOwnership ==
    lastOp = "Cancel" =>
        /\ Len(sent) = 1
        /\ sent[1].url = IF pre.IsOurOffer THEN apiCancelTradeOffer
                         ELSE apiDeclineTradeOffer

\* A cancel of an offer the caller built and sent (only a send makes such an
\* offer ours).
C5_Witness ==
    /\ lastOp = "Cancel"
    /\ pre.RecvItems = <<>> /\ pre.IsOurOffer /\ pre.ID # 0
    /\ sent[1].url = apiCancelTradeOffer

\* C6: with a response in hand, decline and cancel succeed exactly when the
\* x-eresult header is "1" and otherwise fail with the raw header value
\* (empty when missing), whatever the body; accept is decided by the status
\* and the body's strError, whatever that header.
C6_ErrorConventions ==
    /\ (lastOp = "Cancel" /\ resp.transport = "ok") =>
        LET raw == HeaderGet(resp.headers, "X-Eresult")
            what == IF pre.IsOurOffer THEN "cannot cancel trade: "
                    ELSE "cannot decline trade: "
        IN  /\ result.outcome = "ok" <=> resp.headers = {<<"X-Eresult", "1">>}
            /\ result.outcome # "ok" => result = Failed(<<what, raw>>)
    /\ (lastOp = "Accept" /\ Decoded /\ resp.status = 200) =>
        /\ result.outcome = "ok" <=> resp.body.strError = ""
        /\ result.outcome # "ok" => result = Failed(<<resp.body.strError>>)

\* A cancel failed on a missing header although the body reported no error.
C6_Witness ==
    /\ lastOp = "Cancel" /\ resp.transport = "ok"
    /\ resp.headers = {} /\ resp.body.valid /\ resp.body.strError = ""
    /\ result = Failed(<<"cannot cancel trade: ", "">>)

\* C7: an empty envelope (no response field, or a response without an offer)
\* makes GetTradeOffer return an error: never a nil offer with a nil error,
\* never a panic.
C7_EmptyEnvelopeIsAnError ==
    (lastOp = "GetTradeOffer" /\ Decoded
        /\ (~resp.body.hasResponse \/ ~resp.body.hasOffer))
    => result.outcome = "error"


----------------------------------------------------------------------------
(* Claims on the page scrapers and the filter encoding *)

\* The page was fetched and read.
Fetched == resp.transport = "ok" /\ resp.status = 200 /\ ~resp.readErr

\* The items of the item fragments among the pieces, in page order.
RECURSIVE ItemsOf(_)
ItemsOf(pieces) ==
    IF pieces = <<>> THEN <<>>
    ELSE (IF Head(pieces).kind = "item" THEN <<[id |-> <<Head(pieces).item>>]>> ELSE <<>>)
         \o ItemsOf(Tail(pieces))

KindsOf(pieces) == {pieces[k].kind : k \in 1..Len(pieces)}

HasFlag(f, bit) == (f \div bit) % 2 = 1

ParseInt(s) == IF Head(s) = "-" THEN 0 - ParseUint(Tail(s)) ELSE ParseUint(s)

FlagParams(f, bit, names) == IF HasFlag(f, bit) THEN names ELSE {}

\* C9: for every filter mask the query holds, besides the key, exactly the
\* parameters of the flags that are set: get_sent_offers, get_received_offers,
\* active_only with time_historical_cutoff, historical_only, get_descriptions;
\* each flag parameter is "1" and the cutoff is the given time in seconds.
C9_FilterFlagsIndependent ==
    lastOp = "GetTradeOffers" =>
        LET q == sent[1].query
            f == args.filter
        IN  /\ DOMAIN q =
                {"key"}
                \cup FlagParams(f, TradeFilterSentOffers, {"get_sent_offers"})
                \cup FlagParams(f, TradeFilterRecvOffers, {"get_received_offers"})
                \cup FlagParams(f, TradeFilterActiveOnly,
                                {"active_only", "time_historical_cutoff"})
                \cup FlagParams(f, TradeFilterHistoricalOnly, {"historical_only"})
                \cup FlagParams(f, TradeFilterItemDescriptions, {"get_descriptions"})
            /\ \A k \in DOMAIN q \ {"key", "time_historical_cutoff"} : q[k] = "1"
            /\ "time_historical_cutoff" \in DOMAIN q
                => ParseInt(q["time_historical_cutoff"]) = args.timeCutOff

\* SentOffers|ActiveOnly with cutoff 15: get_sent_offers=1, active_only=1,
\* time_historical_cutoff=15 and no get_received_offers.
C9_Witness ==
    /\ lastOp = "GetTradeOffers"
    /\ args.filter = TradeFilterSentOffers + TradeFilterActiveOnly
    /\ args.timeCutOff = 15
    /\ DOMAIN sent[1].query =
        {"key", "get_sent_offers", "active_only", "time_historical_cutoff"}
    /\ sent[1].query["get_sent_offers"] = "1"
    /\ sent[1].query["active_only"] = "1"
    /\ sent[1].query["time_historical_cutoff"] = <<"1", "5">>

\* The tokens of the successive occurrences of token=<characters> in a page,
\* from position i on.
RECURSIVE TokenOccurrences(_, _)
TokenOccurrences(body, i) ==
    IF i > Len(body) THEN <<>>
    ELSE IF OfferInfoMatchesAt(body, i)
    THEN <<OfferInfoMatch(body, i)[2]>>
         \o TokenOccurrences(body, RunEnd(body, i + Len(TokenLiteral)) + 1)
    ELSE TokenOccurrences(body, i + 1)

\* C10 as stated: a token is returned only when the pattern occurs exactly
\* once in the fetched page; with no or several occurrences the call fails
\* with ErrCannotFindOfferInfo.
C10_TokenOnlyWhenExactlyOnce ==
    (lastOp = "GetMyTradeToken" /\ Fetched) =>
        LET n == Len(TokenOccurrences(resp.body, 1))
        IN  /\ result.outcome = "ok" => n = 1
            /\ n # 1 => result = Failed(ErrCannotFindOfferInfo)

\* C10 amended: when the pattern occurs at least once in the fetched page
\* the call returns the token of its first occurrence; it fails with
\* ErrCannotFindOfferInfo exactly when the pattern does not occur.
C10_FirstTokenOrFailure ==
    (lastOp = "GetMyTradeToken" /\ Fetched) =>
        LET all == TokenOccurrences(resp.body, 1)
        IN  IF all = <<>> THEN result = Failed(ErrCannotFindOfferInfo)
            ELSE result = Returned(all[1])

\* A page with two occurrences carrying different tokens gave the first.
C10_Witness ==
    /\ lastOp = "GetMyTradeToken" /\ Fetched
    /\ Len(TokenOccurrences(resp.body, 1)) = 2
    /\ TokenOccurrences(resp.body, 1)[1] # TokenOccurrences(resp.body, 1)[2]
    /\ result = Returned(TokenOccurrences(resp.body, 1)[1])


----------------------------------------------------------------------------
(* Claims on the escrow page *)

\* The first piece of a kind among the pieces; none when `absent` comes back.
FirstOfKind(pieces, kind, absent) ==
    IF \E k \in 1..Len(pieces) : pieces[k].kind = kind
    THEN pieces[Min({k \in 1..Len(pieces) : pieces[k].kind = kind})]
    ELSE absent

NoPiece == [kind |-> "none", days |-> NoDays, msg |-> NoError]

\* A day count holds the number the piece writes; 0 without such a piece.
HoldsWritten(days, piece) ==
    IF piece.kind = "none" THEN days = 0 ELSE FormatInt(days) = piece.days.canon

\* C11 as stated: on a fetched page the call succeeds and each of MyDays,
\* ThemDays and ErrorMsg holds the value its own pattern matched (first
\* match) when the pattern is present and 0, 0, "" when it is absent,
\* whatever the other two patterns do.
C11_EachPatternItsMatchedValue ==
    (lastOp = "GetEscrow" /\ Fetched) =>
        /\ result.outcome = "ok"
        /\ HoldsWritten(result.value.MyDays, FirstOfKind(resp.pieces, "my", NoPiece))
        /\ HoldsWritten(result.value.ThemDays, FirstOfKind(resp.pieces, "them", NoPiece))
        /\ result.value.ErrorMsg = FirstOfKind(resp.pieces, "error", NoPiece).msg.shown

\* A day count holds the number the piece writes, or the largest 32-bit
\* value when that number does not fit 32 bits; 0 without such a piece.
HoldsWritten32(days, piece) ==
    IF piece.kind = "none" THEN days = 0
    ELSE IF piece.days.fits THEN FormatInt(days) = piece.days.canon
    ELSE days = MaxInt32

\* C11 within and beyond the 32-bit range: on a fetched page the call
\* succeeds and each field follows its own pattern alone, a matched day
\* count above 2^31 - 1 coming back as 2^31 - 1.
C11_EachPatternIndependently ==
    (lastOp = "GetEscrow" /\ Fetched) =>
        /\ result.outcome = "ok"
        /\ HoldsWritten32(result.value.MyDays, FirstOfKind(resp.pieces, "my", NoPiece))
        /\ HoldsWritten32(result.value.ThemDays, FirstOfKind(resp.pieces, "them", NoPiece))
        /\ result.value.ErrorMsg = FirstOfKind(resp.pieces, "error", NoPiece).msg.shown

\* A page with only the "my days" pattern gave that count, 0 and "".
C11_Witness ==
    /\ lastOp = "GetEscrow" /\ Fetched
    /\ KindsOf(resp.pieces) = {"my", "text"}
    /\ result = Returned([MyDays |-> 7, ThemDays |-> 0, ErrorMsg |-> <<>>])


----------------------------------------------------------------------------
(* Claims on what a request carries *)

KeyInQuery(req) == "key" \in DOMAIN req.query /\ req.query.key = apiKey

KeyInForm(req) == "key" \in DOMAIN req.form /\ req.form.key = apiKey

NoKey(req) == "key" \notin DOMAIN req.query /\ "key" \notin DOMAIN req.form

SessionInForm(req) ==
    /\ {"sessionid", "serverid"} \subseteq DOMAIN req.form
    /\ req.form.sessionid = sessionID
    /\ req.form.serverid = "1"

NoSession(req) ==
    {"sessionid", "serverid"} \cap (DOMAIN req.query \cup DOMAIN req.form) = {}

\* C12 as stated: the reads carry the API key as a query parameter; accept,
\* decline and cancel carry the session identifier and serverid=1 in the
\* form body, and no API key.
C12_KeyInQueryOrSessionForm ==
    /\ lastOp \in {"GetTradeOffer", "GetTradeOffersSummary"} =>
        Len(sent) = 1 /\ KeyInQuery(sent[1])
    /\ lastOp \in {"Accept", "Cancel"} =>
        Len(sent) = 1 /\ SessionInForm(sent[1]) /\ NoKey(sent[1])

\* C12 amended: the reads carry the API key as a query parameter and no form;
\* decline and cancel carry the API key and the offer id in the form body,
\* without session identifier or serverid; accept and send carry the session
\* identifier and serverid=1 in the form body, and no API key.
C12_KeyOrSessionPerRequest ==
    /\ lastOp \in {"GetTradeOffer", "GetTradeOffersSummary"} =>
        /\ Len(sent) = 1
        /\ KeyInQuery(sent[1]) /\ sent[1].form = NoParams /\ NoSession(sent[1])
    /\ lastOp = "Cancel" =>
        /\ Len(sent) = 1
        /\ sent[1].query = NoParams
        /\ sent[1].form = [key |-> apiKey, tradeofferid |-> FormatUint(pre.ID)]
    /\ lastOp \in {"Accept", "Send"} =>
        /\ Len(sent) = 1
        /\ sent[1].query = NoParams
        /\ SessionInForm(sent[1]) /\ NoKey(sent[1])

\* A decline of a received offer went out with the API key in its form.
C12_Witness ==
    /\ lastOp = "Cancel" /\ ~pre.IsOurOffer /\ pre.ID # 0
    /\ sent[1].url = apiDeclineTradeOffer
    /\ KeyInForm(sent[1]) /\ NoSession(sent[1])


----------------------------------------------------------------------------
(* Claims on what a failed send leaves alone *)

\* C13: when SendTradeOffer returns an error (or panics), every field of the
\* offer passed in has the value it had before the call.
C13_FailedSendLeavesOffer ==
    (lastOp = "Send" /\ result.outcome # "ok") => offer = pre

\* A send of an offer that has an identifier already was answered with an
\* error string next to another identifier, and failed.
C13_Witness ==
    /\ lastOp = "Send" /\ Decoded
    /\ result = Failed(<<"boom">>)
    /\ pre.ID # 0 /\ ServerID # 0 /\ ServerID # pre.ID
    /\ offer.ID = pre.ID

====
